---- MODULE Spec2Model ----
(***************************************************************************)
(* ROBOSTAAN: the hosted relational store with its row-level-security      *)
(* policies and schema constraints (supabase/migrations), and the React    *)
(* client that caches blogs and courses in memory (AppContext) and gates   *)
(* the admin controls on isAdmin.                                          *)
(*                                                                         *)
(* Encoding of SQL values: a uuid is a positive integer and NULL is 0; a   *)
(* text value is a string and NULL is "NULL"; a nullable integer is <<>>   *)
(* (NULL) or <<n>>.  A comparison with NULL is never true, and a CHECK     *)
(* constraint passes when its expression is true or NULL.                  *)
(***************************************************************************)
EXTENDS Integers, Sequences, FiniteSets, Bags, TLC

VARIABLES
    db,         \* the tables: table name -> set of rows
    nextId,     \* the next uuid gen_random_uuid() hands out
    response,   \* the backend's answer to the last request
    focus,      \* the tables this behaviour's requests go to
    user,       \* the signed-in account's uid, NULL when signed out
    profile,    \* the signed-in account's profile row: <<>> or <<row>>
    isOpen,     \* UserProfile: the user menu is open
    blogs,      \* AppContext: the in-memory list of blogs
    courses,    \* AppContext: the in-memory list of courses
    loading,    \* AppContext: the loading flag
    requests,   \* the client's requests in flight (a bag)
    resolved,   \* history: the addBlog .. deleteCourse calls that resolved
    settled,    \* how the last addBlog .. deleteCourse call ended: <<>> or <<s>>
    showModal,  \* Blogs page: the blog form is shown
    editingBlog,\* Blogs page: the blog being edited, <<>> or <<row>>
    formData,   \* the open page: what is entered in its form
    alert,      \* the message of the alert the page has up, "" when none
    adminSecretKey, \* Signup page: the admin secret key entered
    error,      \* Signup and Login page: the error banner, NULLTEXT when none
    success,    \* Signup page: the success banner, NULLTEXT when none
    submitting, \* Signup and Login page: the page's own loading flag
    route,      \* where the page last navigated to, "" when nowhere
    editing     \* Profile page: the profile form is shown

dbVars == <<db, nextId, response>>
authVars == <<user, profile, isOpen>>
appVars == <<blogs, courses, loading>>
formVars == <<adminSecretKey, error, success, submitting, route, editing>>
pageVars == <<showModal, editingBlog, formData, alert, formVars>>
clientVars == <<user, profile, isOpen, blogs, courses, loading, requests,
                resolved, settled, pageVars>>
vars == <<db, nextId, response, focus, user, profile, isOpen, blogs, courses,
          loading, requests, resolved, settled, showModal, editingBlog,
          formData, alert, adminSecretKey, error, success, submitting, route,
          editing>>

-----------------------------------------------------------------------------
(* Bounds of the model *)

\* rows a behaviour may insert on top of the sample data
MaxRows == 2
\* requests the client may have in flight at a time
MaxInFlight == 2
\* rows the client may add in a behaviour
MaxAdds == 1

-----------------------------------------------------------------------------
(* SQL values *)

NULL == 0
NULLTEXT == "NULL"
NULLINT == <<>>

\* a = b in SQL, as a condition: NULL on either side is not true
SqlEq(a, b) == a # NULL /\ b # NULL /\ a = b

\* auth.users: the registered users; the anonymous requester has no uid
Users == {1, 2}
Anon == NULL
Requesters == Users \cup {Anon}

\* the sample rows the migrations insert (one of each stands for all)
SeedBlogId == 3
SeedCourseId == 4
FirstId == 5

Tables == {"blogs", "courses", "user_profiles", "user_preferences",
           "course_enrollments", "blog_likes", "comments",
           "newsletter_subscriptions"}

Ids(rows) == {r.id : r \in rows}

-----------------------------------------------------------------------------
(* Schema: column defaults and constraints *)

Roles == {"user", "admin", "instructor"}
Categories == {"Beginner", "Intermediate", "Advanced"}
ProgressMin == 0
ProgressMax == 100

\* the row an INSERT builds: the supplied columns, defaults for the others
Supplied(input, col, default) ==
    IF col \in DOMAIN input THEN input[col] ELSE default

\* a timestamp, by the clock that chose it: now() of the store, or
\* new Date() of the client
ServerTime == "now()"
ClientTime == "new Date()"

BlogRow(id, input) ==
    [id |-> id, title |-> input.title,
     created_at |-> Supplied(input, "created_at", ServerTime),
     updated_at |-> Supplied(input, "updated_at", ServerTime)]

CourseRow(id, input) ==
    [id |-> id, title |-> input.title, category |-> input.category,
     created_at |-> Supplied(input, "created_at", ServerTime),
     updated_at |-> Supplied(input, "updated_at", ServerTime)]

ProfileRow(id, input) ==
    [id |-> id, user_id |-> input.user_id, email |-> input.email,
     full_name |-> Supplied(input, "full_name", NULLTEXT),
     avatar_url |-> Supplied(input, "avatar_url", NULLTEXT),
     bio |-> Supplied(input, "bio", NULLTEXT),
     role |-> Supplied(input, "role", "user"),
     updated_at |-> Supplied(input, "updated_at", ServerTime)]

PreferenceRow(id, input) ==
    [id |-> id, user_id |-> input.user_id,
     dark_mode |-> Supplied(input, "dark_mode", FALSE)]

EnrollmentRow(id, input) ==
    [id |-> id, user_id |-> input.user_id, course_id |-> input.course_id,
     progress |-> Supplied(input, "progress", <<0>>)]

LikeRow(id, input) ==
    [id |-> id, user_id |-> input.user_id, blog_id |-> input.blog_id]

CommentRow(id, input) ==
    [id |-> id, user_id |-> input.user_id, blog_id |-> input.blog_id,
     course_id |-> input.course_id, parent_id |-> input.parent_id,
     content |-> input.content]

NewsletterRow(id, input) ==
    [id |-> id, email |-> input.email,
     active |-> Supplied(input, "active", TRUE)]

NewRow(t, id, input) ==
    CASE t = "blogs" -> BlogRow(id, input)
      [] t = "courses" -> CourseRow(id, input)
      [] t = "user_profiles" -> ProfileRow(id, input)
      [] t = "user_preferences" -> PreferenceRow(id, input)
      [] t = "course_enrollments" -> EnrollmentRow(id, input)
      [] t = "blog_likes" -> LikeRow(id, input)
      [] t = "comments" -> CommentRow(id, input)
      [] t = "newsletter_subscriptions" -> NewsletterRow(id, input)

\* (mutant) the upper limit of the CHECK left out
ProgressCheck_NoUpperLimit(p) ==
    p = NULLINT \/ p[1] >= ProgressMin

\* CHECK (progress >= 0 AND progress <= 100): NULL passes
ProgressCheck(p) ==
    p = NULLINT \/ (p[1] >= ProgressMin /\ p[1] <= ProgressMax)

\* CHECK (role IN ('user', 'admin', 'instructor')): NULL passes
RoleCheck(role) == role = NULLTEXT \/ role \in Roles

\* category text NOT NULL CHECK (category IN (...))
CategoryCheck(category) == category # NULLTEXT /\ category \in Categories

\* (mutant) a CHECK that asks for a target but not for a single one
CommentTargetCheck_AnyTarget(row) ==
    row.blog_id # NULL \/ row.course_id # NULL

\* CHECK ((blog_id IS NOT NULL AND course_id IS NULL) OR
\*        (blog_id IS NULL AND course_id IS NOT NULL))
CommentTargetCheck(row) ==
    \/ (row.blog_id # NULL /\ row.course_id = NULL)
    \/ (row.blog_id = NULL /\ row.course_id # NULL)

\* the NOT NULL and CHECK constraints of a table
CheckOK(t, row) ==
    CASE t = "blogs" -> row.title # NULLTEXT
      [] t = "courses" -> row.title # NULLTEXT /\ CategoryCheck(row.category)
      [] t = "user_profiles" -> row.email # NULLTEXT /\ RoleCheck(row.role)
      [] t = "course_enrollments" -> ProgressCheck(row.progress)
      [] t = "comments" -> row.content # NULLTEXT /\ CommentTargetCheck(row)
      [] t = "newsletter_subscriptions" -> row.email # NULLTEXT
      [] OTHER -> TRUE

\* (mutant) the UNIQUE constraints on the pairs left out
UniqueOK_NoPairs(t, row, others) ==
    t \in {"user_profiles", "newsletter_subscriptions"} =>
        \A o \in others : o.email # row.email

\* the UNIQUE constraints: a key with a NULL in it never collides
UniqueOK(t, row, others) ==
    CASE t = "user_profiles" ->
            \A o \in others : o.email # row.email
      [] t = "newsletter_subscriptions" ->
            \A o \in others : o.email # row.email
      [] t = "course_enrollments" ->
            \A o \in others : ~(SqlEq(o.user_id, row.user_id)
                                /\ SqlEq(o.course_id, row.course_id))
      [] t = "blog_likes" ->
            \A o \in others : ~(SqlEq(o.user_id, row.user_id)
                                /\ SqlEq(o.blog_id, row.blog_id))
      [] OTHER -> TRUE

\* the foreign keys: [table, column, referenced table], all ON DELETE CASCADE
\* (user_id REFERENCES auth.users is kept by drawing user_id from Users)
ForeignKeys ==
    { [table |-> "course_enrollments", col |-> "course_id", ref |-> "courses"],
      [table |-> "blog_likes", col |-> "blog_id", ref |-> "blogs"],
      [table |-> "comments", col |-> "blog_id", ref |-> "blogs"],
      [table |-> "comments", col |-> "course_id", ref |-> "courses"],
      [table |-> "comments", col |-> "parent_id", ref |-> "comments"] }

\* every reference of the row is NULL or names a row of the referenced table
ForeignKeysOK(d, t, row) ==
    \A fk \in ForeignKeys :
        fk.table = t =>
            row[fk.col] = NULL \/ row[fk.col] \in Ids(d[fk.ref])

ConstraintsOK(d, t, row, others) ==
    CheckOK(t, row) /\ UniqueOK(t, row, others) /\ ForeignKeysOK(d, t, row)

\* (mutant) a cascade that stops after the rows that referenced the deleted one
Cascade_Once(d) ==
    [t \in Tables |->
        {r \in d[t] : \A fk \in ForeignKeys :
            fk.table = t =>
                r[fk.col] = NULL \/ r[fk.col] \in Ids(d[fk.ref])}]

\* ON DELETE CASCADE: drop every row that references a row no longer there,
\* until none is left (a reply goes with its parent comment)
RECURSIVE Cascade(_)
Cascade(d) ==
    LET dangling(t) ==
            {r \in d[t] : \E fk \in ForeignKeys :
                /\ fk.table = t
                /\ r[fk.col] # NULL
                /\ r[fk.col] \notin Ids(d[fk.ref])}
        swept == [t \in Tables |-> d[t] \ dangling(t)]
    IN  IF swept = d THEN d ELSE Cascade(swept)

-----------------------------------------------------------------------------
(* Row-level security *)

\* a policy: FOR cmd TO roles USING / WITH CHECK (pred).  An UPDATE or ALL
\* policy that gives only USING applies it to the new row as well.
BlogPolicies ==
    { [table |-> "blogs", cmd |-> "SELECT", roles |-> {"anon", "authenticated"}, pred |-> "true"],
      [table |-> "blogs", cmd |-> "INSERT", roles |-> {"authenticated"}, pred |-> "true"],
      [table |-> "blogs", cmd |-> "UPDATE", roles |-> {"authenticated"}, pred |-> "true"],
      [table |-> "blogs", cmd |-> "DELETE", roles |-> {"authenticated"}, pred |-> "true"] }

\* (mutant) the write policies of courses granted TO anon as well
CoursePolicies_AnonWrites ==
    { [table |-> "courses", cmd |-> "SELECT", roles |-> {"anon", "authenticated"}, pred |-> "true"],
      [table |-> "courses", cmd |-> "INSERT", roles |-> {"anon", "authenticated"}, pred |-> "true"],
      [table |-> "courses", cmd |-> "UPDATE", roles |-> {"anon", "authenticated"}, pred |-> "true"],
      [table |-> "courses", cmd |-> "DELETE", roles |-> {"anon", "authenticated"}, pred |-> "true"] }

CoursePolicies ==
    { [table |-> "courses", cmd |-> "SELECT", roles |-> {"anon", "authenticated"}, pred |-> "true"],
      [table |-> "courses", cmd |-> "INSERT", roles |-> {"authenticated"}, pred |-> "true"],
      [table |-> "courses", cmd |-> "UPDATE", roles |-> {"authenticated"}, pred |-> "true"],
      [table |-> "courses", cmd |-> "DELETE", roles |-> {"authenticated"}, pred |-> "true"] }

ProfilePolicies ==
    { [table |-> "user_profiles", cmd |-> "SELECT", roles |-> {"anon", "authenticated"}, pred |-> "true"],
      [table |-> "user_profiles", cmd |-> "UPDATE", roles |-> {"authenticated"}, pred |-> "own"],
      [table |-> "user_profiles", cmd |-> "INSERT", roles |-> {"authenticated"}, pred |-> "own"] }

PreferencePolicies ==
    { [table |-> "user_preferences", cmd |-> "ALL", roles |-> {"authenticated"}, pred |-> "own"] }

\* (mutant) enrollments viewable by everyone, like likes and comments
EnrollmentPolicies_PublicSelect ==
    { [table |-> "course_enrollments", cmd |-> "SELECT", roles |-> {"anon", "authenticated"}, pred |-> "true"],
      [table |-> "course_enrollments", cmd |-> "INSERT", roles |-> {"authenticated"}, pred |-> "own"],
      [table |-> "course_enrollments", cmd |-> "UPDATE", roles |-> {"authenticated"}, pred |-> "own"] }

EnrollmentPolicies ==
    { [table |-> "course_enrollments", cmd |-> "SELECT", roles |-> {"authenticated"}, pred |-> "own"],
      [table |-> "course_enrollments", cmd |-> "INSERT", roles |-> {"authenticated"}, pred |-> "own"],
      [table |-> "course_enrollments", cmd |-> "UPDATE", roles |-> {"authenticated"}, pred |-> "own"] }

LikePolicies ==
    { [table |-> "blog_likes", cmd |-> "SELECT", roles |-> {"anon", "authenticated"}, pred |-> "true"],
      [table |-> "blog_likes", cmd |-> "ALL", roles |-> {"authenticated"}, pred |-> "own"] }

\* (mutant) the UPDATE policy of comments without the owner test
CommentPolicies_AnyoneUpdates ==
    { [table |-> "comments", cmd |-> "SELECT", roles |-> {"anon", "authenticated"}, pred |-> "true"],
      [table |-> "comments", cmd |-> "INSERT", roles |-> {"authenticated"}, pred |-> "own"],
      [table |-> "comments", cmd |-> "UPDATE", roles |-> {"authenticated"}, pred |-> "true"],
      [table |-> "comments", cmd |-> "DELETE", roles |-> {"authenticated"}, pred |-> "own"] }

CommentPolicies ==
    { [table |-> "comments", cmd |-> "SELECT", roles |-> {"anon", "authenticated"}, pred |-> "true"],
      [table |-> "comments", cmd |-> "INSERT", roles |-> {"authenticated"}, pred |-> "own"],
      [table |-> "comments", cmd |-> "UPDATE", roles |-> {"authenticated"}, pred |-> "own"],
      [table |-> "comments", cmd |-> "DELETE", roles |-> {"authenticated"}, pred |-> "own"] }

NewsletterPolicies ==
    { [table |-> "newsletter_subscriptions", cmd |-> "INSERT", roles |-> {"anon", "authenticated"}, pred |-> "true"],
      [table |-> "newsletter_subscriptions", cmd |-> "SELECT", roles |-> {"anon", "authenticated"}, pred |-> "true"] }

Policies ==
    BlogPolicies \cup CoursePolicies \cup ProfilePolicies
        \cup PreferencePolicies \cup EnrollmentPolicies \cup LikePolicies
        \cup CommentPolicies \cup NewsletterPolicies

\* the database role of a requester
RoleOf(who) == IF who = Anon THEN "anon" ELSE "authenticated"

\* the policy expression on a row: true, or auth.uid() = user_id
PolicyExpr(pred, who, row) ==
    CASE pred = "true" -> TRUE
      [] pred = "own" -> SqlEq(who, row.user_id)

\* RLS is enabled on every table: a command on a row passes when some policy
\* for the command (or FOR ALL) and the requester's role admits the row
Permitted(t, cmd, who, row) ==
    \E p \in Policies :
        /\ p.table = t
        /\ p.cmd \in {cmd, "ALL"}
        /\ RoleOf(who) \in p.roles
        /\ PolicyExpr(p.pred, who, row)

\* the rows a SELECT returns to the requester
Visible(d, t, who) == {r \in d[t] : Permitted(t, "SELECT", who, r)}

\* the rows with this id an UPDATE or DELETE of the requester reaches: the
\* command's USING and, as the filter reads the row, the SELECT policies
Reachable(d, t, cmd, who, id) ==
    {r \in d[t] : r.id = id /\ Permitted(t, cmd, who, r)
                            /\ Permitted(t, "SELECT", who, r)}

-----------------------------------------------------------------------------
(* Requests *)

\* the value a row holds in the column(s) its table's CHECK constrains
Constrained(t, row) ==
    CASE t = "course_enrollments" -> row.progress
      [] t = "user_profiles" -> row.role
      [] t = "courses" -> row.category
      [] t = "comments" -> <<row.blog_id # NULL, row.course_id # NULL>>
      [] OTHER -> "-"

\* the answer to a request: who asked what of which table, how it ended
\* ("ok"; "none": no row reached; "denied": refused by a policy;
\* "violation": refused by a constraint), the rows a SELECT returned, and
\* for a write the constrained value of the row it tried to store
Respond(who, cmd, t, status, rows, sent) ==
    [who |-> who, cmd |-> cmd, table |-> t, status |-> status,
     rows |-> rows, sent |-> sent]

\* the columns a request may carry
UserIdInputs == Users \cup {NULL}
RefInputs(rows) == Ids(rows) \cup {NULL}
ProgressInputs == {NULLINT, <<0 - 1>>, <<100>>, <<101>>}
RoleInputs == Roles \cup {"guest", NULLTEXT}
Emails == {"a@x", "b@x"}
\* the e-mail address of an account (the pages send the account's own)
EmailOf(u) == IF u = 1 THEN "a@x" ELSE "b@x"

InsertInputs(t) ==
    CASE t = "blogs" -> {[title |-> "t1"]}
      [] t = "courses" ->
            [title : {"t1"}, category : {"Beginner", "Expert"}]
      [] t = "user_profiles" ->
            {[user_id |-> u, email |-> EmailOf(u), role |-> r] :
                    u \in UserIdInputs, r \in RoleInputs}
                \cup {[user_id |-> u, email |-> EmailOf(u)] :
                        u \in UserIdInputs}
      [] t = "user_preferences" ->
            [user_id : UserIdInputs, dark_mode : {TRUE}]
      [] t = "course_enrollments" ->
            [user_id : UserIdInputs, course_id : RefInputs(db["courses"]),
             progress : ProgressInputs]
                \cup [user_id : UserIdInputs,
                      course_id : RefInputs(db["courses"])]
      [] t = "blog_likes" ->
            [user_id : UserIdInputs, blog_id : RefInputs(db["blogs"])]
      [] t = "comments" ->
            [user_id : UserIdInputs, blog_id : RefInputs(db["blogs"]),
             course_id : RefInputs(db["courses"]),
             parent_id : RefInputs(db["comments"]), content : {"c1"}]
      [] t = "newsletter_subscriptions" -> [email : Emails]

UpdateInputs(t) ==
    CASE t = "blogs" -> {[title |-> "t2"]}
      [] t = "courses" -> [title : {"t2"}] \cup [category : {"Advanced", "Expert"}]
      [] t = "user_profiles" ->
            [role : RoleInputs] \cup [full_name : {"n2"}]
                \cup [user_id : UserIdInputs]
      [] t = "user_preferences" ->
            [dark_mode : BOOLEAN] \cup [user_id : UserIdInputs]
      [] t = "course_enrollments" ->
            [progress : ProgressInputs] \cup [user_id : UserIdInputs]
      [] t = "blog_likes" -> [user_id : UserIdInputs]
      [] t = "comments" ->
            [user_id : UserIdInputs]
                \cup [blog_id : RefInputs(db["blogs"]),
                      course_id : RefInputs(db["courses"])]
      [] t = "newsletter_subscriptions" -> [active : {FALSE}]

\* the row after SET: the given columns replaced
Merge(old, changes) ==
    [c \in DOMAIN old |-> IF c \in DOMAIN changes THEN changes[c] ELSE old[c]]

\* the outcome of a command: how it ended, the tables and the uuid counter
\* after it, and the row it stored or tried to store (none: <<>>)
Outcome(status, d, n, row) ==
    [status |-> status, db |-> d, nextId |-> n, row |-> row]

\* INSERT INTO t: the WITH CHECK policies, then the constraints
Inserted(who, t, input) ==
    LET row == NewRow(t, nextId, input)
    IN  IF ~Permitted(t, "INSERT", who, row)
        THEN Outcome("denied", db, nextId, <<row>>)
        ELSE IF ~ConstraintsOK(db, t, row, db[t])
        THEN Outcome("violation", db, nextId, <<row>>)
        ELSE Outcome("ok", [db EXCEPT ![t] = @ \cup {row}], nextId + 1, <<row>>)

\* UPDATE t SET ... WHERE id = ...: rows the policies hide are skipped
\* silently; the new row must pass the policy and the constraints
Updated(who, t, id, changes) ==
    LET hit == Reachable(db, t, "UPDATE", who, id)
    IN  IF hit = {}
        THEN Outcome("none", db, nextId, <<>>)
        ELSE LET old == CHOOSE r \in hit : TRUE
                 new == Merge(old, changes)
             IN  IF ~Permitted(t, "UPDATE", who, new)
                 THEN Outcome("denied", db, nextId, <<new>>)
                 ELSE IF ~ConstraintsOK(db, t, new, db[t] \ {old})
                 THEN Outcome("violation", db, nextId, <<new>>)
                 ELSE Outcome("ok", [db EXCEPT ![t] = (@ \ {old}) \cup {new}],
                              nextId, <<new>>)

\* DELETE FROM t WHERE id = ...: rows the policies hide are skipped silently;
\* the rows that referenced a deleted row go with it
Deleted(who, t, id) ==
    LET hit == Reachable(db, t, "DELETE", who, id)
    IN  IF hit = {}
        THEN Outcome("none", db, nextId, <<>>)
        ELSE Outcome("ok", Cascade([db EXCEPT ![t] = @ \ hit]), nextId, <<>>)

\* the constrained value of the row a write tried to store
Sent(t, out) == IF out.row = <<>> THEN "-" ELSE Constrained(t, out.row[1])

\* a write request sent to the store directly
DbWrite(who, cmd, t, out) ==
    /\ db' = out.db
    /\ nextId' = out.nextId
    /\ response' = Respond(who, cmd, t, out.status, {}, Sent(t, out))

DbInsert(who, t, input) ==
    /\ nextId < FirstId + MaxRows
    /\ DbWrite(who, "INSERT", t, Inserted(who, t, input))

DbUpdate(who, t, id, changes) ==
    DbWrite(who, "UPDATE", t, Updated(who, t, id, changes))

DbDelete(who, t, id) ==
    DbWrite(who, "DELETE", t, Deleted(who, t, id))

\* SELECT * FROM t
DbSelect(who, t) ==
    /\ response' = Respond(who, "SELECT", t, "ok", Visible(db, t, who), "-")
    /\ UNCHANGED <<db, nextId>>

-----------------------------------------------------------------------------
(***************************************************************************)
(* The store on its own: any requester, any request.  Policies and          *)
(* constraints are per table and tables meet only through foreign keys, so  *)
(* a behaviour sends its requests to one family of related tables.          *)

SeedBlogs == {BlogRow(SeedBlogId, [title |-> "t1"])}
SeedCourses == {CourseRow(SeedCourseId, [title |-> "t1", category |-> "Beginner"])}

\* a family: the tables the requests go to, and the tables they reference,
\* whose rows are only deleted
Family(on, parents) == [on |-> on, parents |-> parents]
Families ==
    { Family({"blogs"}, {}),
      Family({"courses"}, {}),
      Family({"user_profiles"}, {}),
      Family({"user_preferences"}, {}),
      Family({"course_enrollments"}, {"courses"}),
      Family({"blog_likes"}, {"blogs"}),
      Family({"comments"}, {"blogs", "courses"}),
      Family({"newsletter_subscriptions"}, {}) }

\* the accounts that signed up before the behaviour starts: user 1 as
\* admin, user 2 as user or instructor
SignedUp(role2) ==
    { ProfileRow(1, [user_id |-> 1, email |-> EmailOf(1), role |-> "admin"]),
      ProfileRow(2, [user_id |-> 2, email |-> EmailOf(2), role |-> role2]) }

\* the Blogs page as it is first rendered
EmptyForm == [title |-> ""]
BlogsPageOpened ==
    /\ showModal = FALSE /\ editingBlog = <<>>
    /\ formData = EmptyForm /\ alert = ""
    /\ adminSecretKey = "" /\ error = NULLTEXT /\ success = NULLTEXT
    /\ submitting = FALSE /\ route = "" /\ editing = FALSE

\* no page is open
NoClient ==
    /\ user = NULL /\ profile = <<>> /\ isOpen = FALSE
    /\ blogs = <<>> /\ courses = <<>> /\ loading = TRUE
    /\ requests = EmptyBag /\ resolved = {} /\ settled = <<>>
    /\ BlogsPageOpened

InitDb ==
    /\ focus \in Families
    /\ \E role2 \in (IF focus.on \subseteq {"blogs", "courses"}
                     THEN {"user", "instructor"} ELSE {"user"}) :
        db = [t \in Tables |->
                CASE t = "blogs" -> SeedBlogs
                  [] t = "courses" -> SeedCourses
                  [] t = "user_profiles" ->
                        IF "user_profiles" \in focus.on
                        THEN {} ELSE SignedUp(role2)
                  [] OTHER -> {}]
    /\ nextId = FirstId
    /\ response = Respond(Anon, "SELECT", "blogs", "ok", SeedBlogs, "-")
    /\ NoClient

Insert == \E who \in Requesters, t \in focus.on :
            \E input \in InsertInputs(t) :
                DbInsert(who, t, input) /\ UNCHANGED <<focus, clientVars>>

Update == \E who \in Requesters, t \in focus.on :
            \E id \in Ids(db[t]), changes \in UpdateInputs(t) :
                DbUpdate(who, t, id, changes) /\ UNCHANGED <<focus, clientVars>>

Delete == \E who \in Requesters, t \in focus.on \cup focus.parents :
            \E id \in Ids(db[t]) : DbDelete(who, t, id) /\ UNCHANGED <<focus, clientVars>>

Select == \E who \in Requesters, t \in focus.on :
            DbSelect(who, t) /\ UNCHANGED <<focus, clientVars>>

NextDb == Insert \/ Update \/ Delete \/ Select

SpecDb == InitDb /\ [][NextDb]_vars

-----------------------------------------------------------------------------
(***************************************************************************)
(* The client: the session, the pages' admin controls, and AppContext with  *)
(* its requests to the store.  A request is sent, answered by the store     *)
(* some time later, and its answer handled by the client later still.       *)
(***************************************************************************)

NoProfile == <<>>
NoData == <<>>

\* the authorization check: a comparison of the profile's role string
isAdmin == profile # NoProfile /\ profile[1].role = "admin"

ListIds(list) == {list[i].id : i \in DOMAIN list}

\* .order('created_at', { ascending: false }): created_at defaults to now()
\* and the uuids of the model are handed out in the order of creation
RECURSIVE NewestFirst(_)
NewestFirst(rows) ==
    IF rows = {} THEN <<>>
    ELSE LET newest == CHOOSE r \in rows : \A o \in rows : o.id <= r.id
         IN  <<newest>> \o NewestFirst(rows \ {newest})

\* (mutant) the updated row is moved to the front of the list
MapReplace_ToFront(list, id, data) ==
    <<data>> \o SelectSeq(list, LAMBDA row : row.id # id)

\* prev.map(row => row.id === id ? data : row)
MapReplace(list, id, data) ==
    [i \in DOMAIN list |-> IF list[i].id = id THEN data ELSE list[i]]

\* prev.filter(row => row.id !== id)
FilterOut(list, id) == SelectSeq(list, LAMBDA row : row.id # id)

\* the in-memory list of a table, and its setter
List(t) == IF t = "blogs" THEN blogs ELSE courses
SetList(t, list) ==
    IF t = "blogs"
    THEN blogs' = list /\ UNCHANGED courses
    ELSE courses' = list /\ UNCHANGED blogs

\* (mutant) the button rendered without the isAdmin guard
AddBlogButton_Unguarded == ~loading

\* Blogs page: a spinner while loading, else the header with the button
AddBlogButton == ~loading /\ isAdmin

\* CourseCard: the edit and delete buttons of a card
CourseCardButtons(course) == isAdmin

\* UserProfile: the Admin Panel link of the open user menu
AdminPanelLink == user # NULL /\ profile # NoProfile /\ isOpen /\ isAdmin

\* the requests of AppContext
FetchRequest(who) ==
    [op |-> "fetchData", who |-> who, phase |-> "blogs", error |-> FALSE,
     blogsData |-> NoData, coursesData |-> NoData]
AddRequest(t, who, input) ==
    [op |-> "add", table |-> t, who |-> who, input |-> input,
     phase |-> "sent", error |-> FALSE, data |-> NoData]
UpdateRequest(t, who, id, changes) ==
    [op |-> "update", table |-> t, who |-> who, id |-> id,
     input |-> changes, phase |-> "sent", error |-> FALSE, data |-> NoData]
DeleteRequest(t, who, id) ==
    [op |-> "delete", table |-> t, who |-> who, id |-> id,
     phase |-> "sent", error |-> FALSE]

InFlight == BagToSet(requests)
Send(r) ==
    /\ BagCardinality(requests) < MaxInFlight
    /\ requests' = requests (+) SetToBag({r})
Replace(r, r2) == requests' = (requests (-) SetToBag({r})) (+) SetToBag({r2})
Drop(r) == requests' = requests (-) SetToBag({r})

\* the answer of the store recorded in the request
Answered(r, failed, data) ==
    [r EXCEPT !.phase = "answered", !.error = failed, !.data = data]

\* what the modal form of a page submits for a new row and for an edit
FormInputs(t) ==
    IF t = "blogs" THEN {[title |-> "t1"]}
    ELSE {[title |-> "t1", category |-> "Beginner"]}
EditInputs(t) == {[title |-> "t2"]}

\* how a call of addBlog .. deleteCourse ended: resolved, or rejected with
\* the error of the backend (error = TRUE)
Settled(r) == [op |-> r.op, table |-> r.table, error |-> r.error]

\* a call of addBlog .. deleteCourse that resolved
Resolved(op, t, id) == [op |-> op, table |-> t, id |-> id]

\* sign-in on the Login page: the session is established
signIn ==
    /\ user = NULL
    /\ \E u \in Users : user' = u
    /\ profile' = NoProfile
    /\ UNCHANGED <<dbVars, focus, isOpen, appVars, requests, resolved, settled, pageVars>>

\* the profile of the signed-in account is loaded
refreshProfile ==
    /\ user # NULL
    /\ \E p \in db["user_profiles"] :
        /\ SqlEq(p.user_id, user)
        /\ profile' = <<p>>
    /\ profile' # profile
    /\ UNCHANGED <<dbVars, focus, user, isOpen, appVars, requests, resolved, settled, pageVars>>

\* UserProfile: the avatar button, rendered for a signed-in account
toggleMenu ==
    /\ user # NULL /\ profile # NoProfile
    /\ isOpen' = ~isOpen
    /\ UNCHANGED <<dbVars, focus, user, profile, appVars, requests, resolved, settled, pageVars>>

\* UserProfile: the Sign Out entry of the open menu
handleSignOut ==
    /\ user # NULL /\ profile # NoProfile /\ isOpen
    /\ user' = NULL
    /\ profile' = NoProfile
    /\ isOpen' = FALSE
    /\ UNCHANGED <<dbVars, focus, appVars, requests, resolved, settled, pageVars>>

\* fetchData is called (on mount, or by refreshData)
fetchData ==
    /\ Send(FetchRequest(user))
    /\ loading' = TRUE
    /\ UNCHANGED <<dbVars, focus, authVars, blogs, courses, resolved, settled, pageVars>>

refreshData == fetchData

\* the blogs query is answered; fetchData goes on to the courses query
BlogsQueryAnswered ==
    \E r \in InFlight :
        /\ r.op = "fetchData" /\ r.phase = "blogs"
        /\ Replace(r, [r EXCEPT !.phase = "courses",
                         !.blogsData = NewestFirst(Visible(db, "blogs", r.who))])
        /\ UNCHANGED <<dbVars, focus, authVars, appVars, resolved, settled, pageVars>>

\* the courses query is answered
CoursesQueryAnswered ==
    \E r \in InFlight :
        /\ r.op = "fetchData" /\ r.phase = "courses"
        /\ Replace(r, [r EXCEPT !.phase = "answered",
                         !.coursesData = NewestFirst(Visible(db, "courses", r.who))])
        /\ UNCHANGED <<dbVars, focus, authVars, appVars, resolved, settled, pageVars>>

\* a request fails on the way: the client gets an error, the store nothing
RequestFails ==
    \E r \in InFlight :
        /\ r.phase # "answered"
        /\ Replace(r, [r EXCEPT !.phase = "answered", !.error = TRUE])
        /\ UNCHANGED <<dbVars, focus, authVars, appVars, resolved, settled, pageVars>>

\* (mutant) the rows of the blogs query are kept when the courses query fails
fetchDataReturns_BlogsKept ==
    \E r \in InFlight :
        /\ r.op = "fetchData" /\ r.phase = "answered"
        /\ IF r.error
           THEN blogs' = r.blogsData /\ UNCHANGED courses
           ELSE blogs' = r.blogsData /\ courses' = r.coursesData
        /\ loading' = FALSE
        /\ Drop(r)
        /\ UNCHANGED <<dbVars, focus, authVars, resolved, settled, pageVars>>

\* fetchData after its queries: both lists are set, or on an error neither;
\* the loading flag is cleared either way
fetchDataReturns ==
    \E r \in InFlight :
        /\ r.op = "fetchData" /\ r.phase = "answered"
        /\ IF r.error
           THEN UNCHANGED <<blogs, courses>>
           ELSE blogs' = r.blogsData /\ courses' = r.coursesData
        /\ loading' = FALSE
        /\ Drop(r)
        /\ UNCHANGED <<dbVars, focus, authVars, resolved, settled, pageVars>>

\* addBlog / addCourse is called: the INSERT is sent
add(t) ==
    /\ t \in focus.on
    /\ nextId + Cardinality({r \in InFlight : r.op = "add"}) < FirstId + MaxAdds
    /\ \E input \in FormInputs(t) : Send(AddRequest(t, user, input))
    /\ UNCHANGED <<dbVars, focus, authVars, appVars, resolved, settled, pageVars>>

addBlog == add("blogs")
addCourse == add("courses")

\* { ...updatedBlog, updated_at: new Date().toISOString() }
Stamped(changes) ==
    [c \in DOMAIN changes \cup {"updated_at"} |->
        IF c = "updated_at" THEN ClientTime ELSE changes[c]]

\* updateBlog / updateCourse is called for a listed row: the UPDATE is sent
update(t) ==
    /\ t \in focus.on
    /\ \E id \in ListIds(List(t)), changes \in EditInputs(t) :
        Send(UpdateRequest(t, user, id, Stamped(changes)))
    /\ UNCHANGED <<dbVars, focus, authVars, appVars, resolved, settled, pageVars>>

updateBlog == update("blogs")
updateCourse == update("courses")

\* deleteBlog / deleteCourse is called for a listed row: the DELETE is sent
delete(t) ==
    /\ t \in focus.on
    /\ \E id \in ListIds(List(t)) : Send(DeleteRequest(t, user, id))
    /\ UNCHANGED <<dbVars, focus, authVars, appVars, resolved, settled, pageVars>>

deleteBlog == delete("blogs")
deleteCourse == delete("courses")

\* the store answers an INSERT ... .select().single()
InsertAnswered ==
    \E r \in InFlight :
        /\ r.op = "add" /\ r.phase = "sent"
        /\ LET out == Inserted(r.who, r.table, r.input)
           IN  /\ db' = out.db
               /\ nextId' = out.nextId
               /\ Replace(r, Answered(r, out.status # "ok",
                            IF out.status = "ok" THEN out.row ELSE NoData))
        /\ UNCHANGED <<response, focus, authVars, appVars, resolved, settled, pageVars>>

\* the store answers an UPDATE ... .select().single(): no row is an error
UpdateAnswered ==
    \E r \in InFlight :
        /\ r.op = "update" /\ r.phase = "sent"
        /\ LET out == Updated(r.who, r.table, r.id, r.input)
           IN  /\ db' = out.db
               /\ nextId' = out.nextId
               /\ Replace(r, Answered(r, out.status # "ok",
                            IF out.status = "ok" THEN out.row ELSE NoData))
        /\ UNCHANGED <<response, focus, authVars, appVars, resolved, settled, pageVars>>

\* the store answers a DELETE: no row reached is no error
DeleteAnswered ==
    \E r \in InFlight :
        /\ r.op = "delete" /\ r.phase = "sent"
        /\ LET out == Deleted(r.who, r.table, r.id)
           IN  /\ db' = out.db
               /\ nextId' = out.nextId
               /\ Replace(r, [r EXCEPT !.phase = "answered"])
        /\ UNCHANGED <<response, focus, authVars, appVars, resolved, settled, pageVars>>

\* (mutant) the new row is put at the end of the list
addResult_Appends(t, r) ==
    /\ r.op = "add" /\ r.table = t /\ r.phase = "answered"
    /\ IF r.error
       THEN UNCHANGED <<blogs, courses, resolved>>
       ELSE /\ SetList(t, List(t) \o <<r.data[1]>>)
            /\ resolved' = resolved \cup {Resolved("add", t, r.data[1].id)}
    /\ settled' = <<Settled(r)>>
    /\ Drop(r)
    /\ UNCHANGED <<dbVars, focus, authVars, loading>>

\* addBlog / addCourse after the await: the row is put in front of the list,
\* or the error rethrown
addResult(t, r) ==
    /\ r.op = "add" /\ r.table = t /\ r.phase = "answered"
    /\ IF r.error
       THEN UNCHANGED <<blogs, courses, resolved>>
       ELSE /\ SetList(t, <<r.data[1]>> \o List(t))
            /\ resolved' = resolved \cup {Resolved("add", t, r.data[1].id)}
    /\ settled' = <<Settled(r)>>
    /\ Drop(r)
    /\ UNCHANGED <<dbVars, focus, authVars, loading>>

addReturns(t) == \E r \in InFlight : addResult(t, r) /\ UNCHANGED pageVars

addBlogReturns == addReturns("blogs")
addCourseReturns == addReturns("courses")

\* updateBlog / updateCourse after the await: the row replaced in place
updateResult(t, r) ==
    /\ r.op = "update" /\ r.table = t /\ r.phase = "answered"
    /\ IF r.error
       THEN UNCHANGED <<blogs, courses, resolved>>
       ELSE /\ SetList(t, MapReplace(List(t), r.id, r.data[1]))
            /\ UNCHANGED resolved
    /\ settled' = <<Settled(r)>>
    /\ Drop(r)
    /\ UNCHANGED <<dbVars, focus, authVars, loading>>

updateReturns(t) == \E r \in InFlight : updateResult(t, r) /\ UNCHANGED pageVars

updateBlogReturns == updateReturns("blogs")
updateCourseReturns == updateReturns("courses")

\* (mutant) the row filtered out whether or not the backend reported an error
deleteReturns_ErrorIgnored(t) ==
    \E r \in InFlight :
        /\ r.op = "delete" /\ r.table = t /\ r.phase = "answered"
        /\ SetList(t, FilterOut(List(t), r.id))
        /\ resolved' = resolved \cup {Resolved("delete", t, r.id)}
        /\ settled' = <<Settled(r)>>
        /\ Drop(r)
        /\ UNCHANGED <<dbVars, focus, authVars, loading, pageVars>>

\* deleteBlog / deleteCourse after the await: the row filtered out
deleteResult(t, r) ==
    /\ r.op = "delete" /\ r.table = t /\ r.phase = "answered"
    /\ IF r.error
       THEN UNCHANGED <<blogs, courses, resolved>>
       ELSE /\ SetList(t, FilterOut(List(t), r.id))
            /\ resolved' = resolved \cup {Resolved("delete", t, r.id)}
    /\ settled' = <<Settled(r)>>
    /\ Drop(r)
    /\ UNCHANGED <<dbVars, focus, authVars, loading>>

deleteReturns(t) == \E r \in InFlight : deleteResult(t, r) /\ UNCHANGED pageVars

deleteBlogReturns == deleteReturns("blogs")
deleteCourseReturns == deleteReturns("courses")

\* the sample data and the two accounts, before any request
Store(role2) ==
    /\ db = [t \in Tables |->
                CASE t = "blogs" -> SeedBlogs
                  [] t = "courses" -> SeedCourses
                  [] t = "user_profiles" -> SignedUp(role2)
                  [] OTHER -> {}]
    /\ nextId = FirstId
    /\ response = Respond(Anon, "SELECT", "blogs", "ok", SeedBlogs, "-")

\* AppProvider is mounted and its first fetchData under way
Mounted ==
    /\ blogs = <<>> /\ courses = <<>> /\ loading = TRUE
    /\ requests = SetToBag({FetchRequest(user)})
    /\ resolved = {} /\ settled = <<>>
    /\ BlogsPageOpened

\* the application is opened by a visitor or with the session of an account
\* restored; the behaviour edits either the blogs or the courses
Init ==
    /\ focus \in {Family({"blogs"}, {}), Family({"courses"}, {})}
    /\ Store("user")
    /\ user \in Requesters
    /\ profile = IF user = NULL THEN NoProfile
                 ELSE <<CHOOSE p \in SignedUp("user") : p.user_id = user>>
    /\ isOpen = FALSE
    /\ Mounted

Next ==
    \/ refreshData
    \/ BlogsQueryAnswered \/ CoursesQueryAnswered \/ RequestFails
    \/ fetchDataReturns
    \/ addBlog \/ updateBlog \/ deleteBlog
    \/ addCourse \/ updateCourse \/ deleteCourse
    \/ InsertAnswered \/ UpdateAnswered \/ DeleteAnswered
    \/ addBlogReturns \/ updateBlogReturns \/ deleteBlogReturns
    \/ addCourseReturns \/ updateCourseReturns \/ deleteCourseReturns

Spec == Init /\ [][Next]_vars

\* the application is opened by a visitor, who signs in and out while the
\* lists load; nothing is edited
InitUi ==
    /\ focus = Family({}, {})
    /\ \E role2 \in {"user", "instructor"} : Store(role2)
    /\ user = NULL /\ profile = NoProfile /\ isOpen = FALSE
    /\ Mounted

NextUi ==
    \/ signIn \/ refreshProfile \/ toggleMenu \/ handleSignOut
    \/ refreshData
    \/ BlogsQueryAnswered \/ CoursesQueryAnswered \/ RequestFails
    \/ fetchDataReturns

SpecUi == InitUi /\ [][NextUi]_vars

\* ---- the Blogs page -------------------------------------------------------

\* what can be typed into the title field
Titles == {"t1", "t2"}

SavingFailed == "Error saving blog. Please try again."
DeletingFailed == "Error deleting blog. Please try again."

\* window.alert blocks the page's script until the dialog is dismissed
NoDialog == alert = ""

\* the Add Blog button: the empty modal is opened
openModal ==
    /\ NoDialog
    /\ AddBlogButton
    /\ showModal' = TRUE
    /\ UNCHANGED <<dbVars, focus, authVars, appVars, requests, resolved,
                   settled, editingBlog, formData, alert, formVars>>

\* the edit button of a listed blog: the modal is opened with its data
handleEdit ==
    /\ NoDialog /\ ~loading
    /\ \E i \in DOMAIN blogs :
        /\ editingBlog' = <<blogs[i]>>
        /\ formData' = [title |-> blogs[i].title]
    /\ showModal' = TRUE
    /\ UNCHANGED <<dbVars, focus, authVars, appVars, requests, resolved,
                   settled, alert, formVars>>

\* the title field of the modal is edited
typeTitle ==
    /\ NoDialog /\ ~loading /\ showModal
    /\ \E title \in Titles : formData' = [formData EXCEPT !.title = title]
    /\ UNCHANGED <<dbVars, focus, authVars, appVars, requests, resolved,
                   settled, showModal, editingBlog, alert, formVars>>

\* the X button of the modal
closeModal ==
    /\ NoDialog /\ ~loading /\ showModal
    /\ showModal' = FALSE
    /\ editingBlog' = <<>>
    /\ formData' = EmptyForm
    /\ UNCHANGED <<dbVars, focus, authVars, appVars, requests, resolved,
                   settled, alert, formVars>>

\* the Cancel button of the modal: the form data stays
cancelModal ==
    /\ NoDialog /\ ~loading /\ showModal
    /\ showModal' = FALSE
    /\ editingBlog' = <<>>
    /\ UNCHANGED <<dbVars, focus, authVars, appVars, requests, resolved,
                   settled, formData, alert, formVars>>

\* the form of the modal is submitted (the title is a required field):
\* updateBlog for the blog being edited, addBlog otherwise
handleSubmit ==
    /\ NoDialog /\ ~loading /\ showModal
    /\ formData.title # ""
    /\ IF editingBlog # <<>>
       THEN Send(UpdateRequest("blogs", user, editingBlog[1].id,
                               Stamped(formData)))
       ELSE /\ nextId + Cardinality({r \in InFlight : r.op = "add"})
                   < FirstId + MaxAdds
            /\ Send(AddRequest("blogs", user, formData))
    /\ UNCHANGED <<dbVars, focus, authVars, appVars, resolved, settled,
                   pageVars>>

\* (mutant) the modal is closed and the form reset whatever the outcome
handleSubmitReturns_AlwaysCloses ==
    \E r \in InFlight :
        /\ NoDialog
        /\ addResult("blogs", r) \/ updateResult("blogs", r)
        /\ formData' = EmptyForm
        /\ showModal' = FALSE
        /\ editingBlog' = <<>>
        /\ alert' = IF r.error THEN SavingFailed ELSE alert
        /\ UNCHANGED formVars

\* handleSubmit after the await: the form is reset and the modal closed, or
\* the error caught and reported with an alert
handleSubmitReturns ==
    \E r \in InFlight :
        /\ NoDialog
        /\ addResult("blogs", r) \/ updateResult("blogs", r)
        /\ IF r.error
           THEN /\ alert' = SavingFailed
                /\ UNCHANGED <<showModal, editingBlog, formData>>
           ELSE /\ formData' = EmptyForm
                /\ showModal' = FALSE
                /\ editingBlog' = <<>>
                /\ UNCHANGED alert
        /\ UNCHANGED formVars

\* the delete button of a listed blog, confirmed
handleDelete ==
    /\ NoDialog /\ ~loading
    /\ \E id \in ListIds(blogs) : Send(DeleteRequest("blogs", user, id))
    /\ UNCHANGED <<dbVars, focus, authVars, appVars, resolved, settled,
                   pageVars>>

\* handleDelete after the await: an error is caught and reported
handleDeleteReturns ==
    \E r \in InFlight :
        /\ NoDialog
        /\ deleteResult("blogs", r)
        /\ alert' = IF r.error THEN DeletingFailed ELSE alert
        /\ UNCHANGED <<showModal, editingBlog, formData, formVars>>

\* the alert dialog is dismissed
alertDismissed ==
    /\ alert # ""
    /\ alert' = ""
    /\ UNCHANGED <<dbVars, focus, authVars, appVars, requests, resolved,
                   settled, showModal, editingBlog, formData, formVars>>

\* the Blogs page is opened with the session of the admin restored
InitBlogs ==
    /\ focus = Family({"blogs"}, {})
    /\ Store("user")
    /\ user = 1
    /\ profile = <<CHOOSE p \in SignedUp("user") : p.user_id = user>>
    /\ isOpen = FALSE
    /\ Mounted

\* fetchData returns while the page is open
fetchDataReturnsToPage == NoDialog /\ fetchDataReturns

NextBlogs ==
    \/ BlogsQueryAnswered \/ CoursesQueryAnswered \/ RequestFails
    \/ InsertAnswered \/ UpdateAnswered \/ DeleteAnswered
    \/ fetchDataReturnsToPage
    \/ openModal \/ handleEdit \/ typeTitle \/ closeModal \/ cancelModal
    \/ handleSubmit \/ handleSubmitReturns
    \/ handleDelete \/ handleDeleteReturns
    \/ alertDismissed

SpecBlogs == InitBlogs /\ [][NextBlogs]_vars

\* ---- the Signup page ------------------------------------------------------

ADMIN_SECRET == "robostaan_admin_2024"
MinPasswordLength == 6

\* what can be typed: passwords (as sequences of characters) of 3 and of 6
\* characters, and admin secret keys
Passwords == {<<1, 2, 3>>, <<1, 2, 3, 4, 5, 6>>}
Keys == {ADMIN_SECRET, "guess"}

\* the form as the page first renders it
SignupForm ==
    [email |-> "", password |-> <<>>, confirmPassword |-> <<>>, role |-> "user"]

\* the uid the authentication service gives the account that signs up
NewUser == 2

\* the call of handleSubmit with what it read from the form
SignUpRequest ==
    [op |-> "signUp", email |-> formData.email, role |-> formData.role,
     adminSecretKey |-> adminSecretKey, phase |-> "signUp", session |-> FALSE]

\* a field of the form is edited; the key field is there for role admin
SignupEdit ==
    /\ route = ""
    /\ \/ /\ \E c \in DOMAIN formData :
                \E v \in (CASE c = "email" -> Emails
                             [] c = "role" -> Roles
                             [] OTHER -> Passwords) :
                    formData' = [formData EXCEPT ![c] = v]
          /\ UNCHANGED adminSecretKey
       \/ /\ formData.role = "admin"
          /\ \E key \in Keys : adminSecretKey' = key
          /\ UNCHANGED formData
    /\ UNCHANGED <<dbVars, focus, authVars, appVars, requests, resolved,
                   settled, showModal, editingBlog, editing, alert, error, success,
                   submitting, route>>

\* the fields marked required are filled in
Filled ==
    /\ formData.email # "" /\ formData.password # <<>>
    /\ formData.confirmPassword # <<>>
    /\ formData.role = "admin" => adminSecretKey # ""

\* (mutant) the admin secret key is not looked at
SignupSubmit_KeyIgnored ==
    /\ route = "" /\ ~submitting /\ Filled
    /\ success' = NULLTEXT
    /\ IF formData.password # formData.confirmPassword
       THEN error' = "Passwords do not match" /\ UNCHANGED <<requests, submitting>>
       ELSE IF Len(formData.password) < MinPasswordLength
       THEN /\ error' = "Password must be at least 6 characters long"
            /\ UNCHANGED <<requests, submitting>>
       ELSE /\ error' = NULLTEXT
            /\ submitting' = TRUE
            /\ Send(SignUpRequest)
    /\ UNCHANGED <<dbVars, focus, authVars, appVars, resolved, settled,
                   showModal, editingBlog, editing, formData, alert, adminSecretKey,
                   route>>

\* (mutant) the admin secret key is checked before the passwords
SignupSubmit_KeyFirst ==
    /\ route = "" /\ ~submitting /\ Filled
    /\ success' = NULLTEXT
    /\ IF formData.role = "admin" /\ adminSecretKey # ADMIN_SECRET
       THEN /\ error' = "Invalid admin secret key"
            /\ UNCHANGED <<requests, submitting>>
       ELSE IF formData.password # formData.confirmPassword
       THEN error' = "Passwords do not match" /\ UNCHANGED <<requests, submitting>>
       ELSE IF Len(formData.password) < MinPasswordLength
       THEN /\ error' = "Password must be at least 6 characters long"
            /\ UNCHANGED <<requests, submitting>>
       ELSE /\ error' = NULLTEXT
            /\ submitting' = TRUE
            /\ Send(SignUpRequest)
    /\ UNCHANGED <<dbVars, focus, authVars, appVars, resolved, settled,
                   showModal, editingBlog, editing, formData, alert, adminSecretKey,
                   route>>

\* handleSubmit up to its first await: the three checks, then the sign-up
\* request
SignupSubmit ==
    /\ route = "" /\ ~submitting /\ Filled
    /\ success' = NULLTEXT
    /\ IF formData.password # formData.confirmPassword
       THEN error' = "Passwords do not match" /\ UNCHANGED <<requests, submitting>>
       ELSE IF Len(formData.password) < MinPasswordLength
       THEN /\ error' = "Password must be at least 6 characters long"
            /\ UNCHANGED <<requests, submitting>>
       ELSE IF formData.role = "admin" /\ adminSecretKey # ADMIN_SECRET
       THEN /\ error' = "Invalid admin secret key"
            /\ UNCHANGED <<requests, submitting>>
       ELSE /\ error' = NULLTEXT
            /\ submitting' = TRUE
            /\ Send(SignUpRequest)
    /\ UNCHANGED <<dbVars, focus, authVars, appVars, resolved, settled,
                   showModal, editingBlog, editing, formData, alert, adminSecretKey,
                   route>>

\* supabase.auth.signUp is answered: an error is shown in the banner;
\* otherwise the account exists, with or without a session, and handleSubmit
\* goes on to the insert of the profile
SignUpAnswered ==
    \E r \in InFlight :
        /\ r.op = "signUp" /\ r.phase = "signUp"
        /\ \/ /\ error' = "An error occurred during signup"
              /\ submitting' = FALSE
              /\ Drop(r)
           \/ /\ \E session \in BOOLEAN :
                    Replace(r, [r EXCEPT !.phase = "profile",
                                         !.session = session])
              /\ UNCHANGED <<error, submitting>>
        /\ UNCHANGED <<dbVars, focus, authVars, appVars, resolved, settled,
                       showModal, editingBlog, editing, formData, alert,
                       adminSecretKey, success, route>>

\* the profile row handleSubmit inserts
SignupProfile(r) ==
    [user_id |-> NewUser, email |-> r.email, role |-> r.role]

\* the insert of the profile is answered (an error is only logged) and
\* handleSubmit ends: the success banner, the redirect timer, the form reset
SignupProfileAnswered ==
    \E r \in InFlight :
        /\ r.op = "signUp" /\ r.phase = "profile"
        /\ \/ LET out == Inserted(IF r.session THEN NewUser ELSE Anon,
                                  "user_profiles", SignupProfile(r))
              IN  db' = out.db /\ nextId' = out.nextId
           \/ UNCHANGED <<db, nextId>>
        /\ success' = IF r.session
                      THEN "Account created successfully! Redirecting..."
                      ELSE "Account created successfully! Please check your email to confirm your account."
        /\ formData' = SignupForm
        /\ adminSecretKey' = ""
        /\ submitting' = FALSE
        /\ Replace(r, [op |-> "setTimeout", phase |-> "redirect",
                        to |-> IF r.session THEN "/" ELSE "/login"])
        /\ UNCHANGED <<response, focus, authVars, appVars, resolved, settled,
                       showModal, editingBlog, editing, alert, error, route>>

\* the redirect timer fires
SignupRedirect ==
    \E r \in InFlight :
        /\ r.op = "setTimeout" /\ r.phase = "redirect"
        /\ route' = r.to
        /\ Drop(r)
        /\ UNCHANGED <<dbVars, focus, authVars, appVars, resolved, settled,
                       showModal, editingBlog, editing, formData, alert,
                       adminSecretKey, error, success, submitting>>

\* the Signup page is opened by a visitor; the admin has an account
InitSignup ==
    /\ focus = Family({"user_profiles"}, {})
    /\ db = [t \in Tables |->
                CASE t = "blogs" -> SeedBlogs
                  [] t = "courses" -> SeedCourses
                  [] t = "user_profiles" ->
                        {p \in SignedUp("user") : p.user_id # NewUser}
                  [] OTHER -> {}]
    /\ nextId = FirstId
    /\ response = Respond(Anon, "SELECT", "blogs", "ok", SeedBlogs, "-")
    /\ user = NULL /\ profile = NoProfile /\ isOpen = FALSE
    /\ blogs = <<>> /\ courses = <<>> /\ loading = FALSE
    /\ requests = EmptyBag /\ resolved = {} /\ settled = <<>>
    /\ showModal = FALSE /\ editingBlog = <<>> /\ alert = ""
    /\ formData = SignupForm
    /\ adminSecretKey = "" /\ error = NULLTEXT /\ success = NULLTEXT
    /\ submitting = FALSE /\ route = "" /\ editing = FALSE

NextSignup ==
    \/ SignupEdit \/ SignupSubmit
    \/ SignUpAnswered \/ SignupProfileAnswered \/ SignupRedirect

SpecSignup == InitSignup /\ [][NextSignup]_vars

\* ---- the Login page -------------------------------------------------------

demoCredentials ==
    { [email |-> "admin@robostaan.com", password |-> "admin123"],
      [email |-> "instructor@robostaan.com", password |-> "instructor123"],
      [email |-> "student@robostaan.com", password |-> "student123"] }

\* the accounts of the authentication service: the uid of the account with
\* this e-mail address, NULL when there is none
AccountOf(email) ==
    CASE email = "admin@robostaan.com" -> 1
      [] email = "student@robostaan.com" -> 2
      [] OTHER -> NULL

\* the profiles that may exist when the page is opened
LoginProfiles ==
    { ProfileRow(1, [user_id |-> 1, email |-> "admin@robostaan.com",
                     role |-> "admin"]),
      ProfileRow(2, [user_id |-> 2, email |-> "student@robostaan.com",
                     role |-> "instructor"]) }

LoginForm == [email |-> "", password |-> ""]

\* a call of handleSubmit ("form") or handleDemoLogin ("demo")
LoginRequest(via, email) ==
    [op |-> "login", via |-> via, email |-> email, phase |-> "signIn",
     uid |-> NULL]

\* e-mail and password are typed in
LoginEdit ==
    /\ route = ""
    /\ formData' \in demoCredentials
    /\ UNCHANGED <<dbVars, focus, authVars, appVars, requests, resolved,
                   settled, showModal, editingBlog, editing, alert, formVars>>

\* handleSubmit up to its first await: the sign-in request
LoginSubmit ==
    /\ route = "" /\ ~submitting
    /\ formData.email # "" /\ formData.password # ""
    /\ submitting' = TRUE
    /\ error' = NULLTEXT
    /\ Send(LoginRequest("form", formData.email))
    /\ UNCHANGED <<dbVars, focus, authVars, appVars, resolved, settled,
                   showModal, editingBlog, editing, formData, alert, adminSecretKey,
                   success, route>>

\* handleDemoLogin up to its first await: the form is filled in with the
\* demo credentials and the sign-in request sent
handleDemoLogin ==
    /\ route = "" /\ ~submitting
    /\ \E credentials \in demoCredentials :
        /\ formData' = credentials
        /\ Send(LoginRequest("demo", credentials.email))
    /\ submitting' = TRUE
    /\ error' = NULLTEXT
    /\ UNCHANGED <<dbVars, focus, authVars, appVars, resolved, settled,
                   showModal, editingBlog, editing, alert, adminSecretKey, success,
                   route>>

\* signInWithPassword is answered: an error goes to the banner; with the
\* user, handleSubmit goes on to look for the profile and handleDemoLogin to
\* refreshProfile
SignInAnswered ==
    \E r \in InFlight :
        /\ r.op = "login" /\ r.phase = "signIn"
        /\ \/ /\ error' = "An error occurred during login"
              /\ submitting' = FALSE
              /\ Drop(r)
           \/ /\ AccountOf(r.email) # NULL
              /\ Replace(r, [r EXCEPT !.uid = AccountOf(r.email),
                                      !.phase = IF r.via = "form"
                                                THEN "select"
                                                ELSE "refreshProfile"])
              /\ UNCHANGED <<error, submitting>>
        /\ UNCHANGED <<dbVars, focus, authVars, appVars, resolved, settled,
                       showModal, editingBlog, editing, formData, alert,
                       adminSecretKey, success, route>>

\* .select('*').eq('user_id', ...).single(): the row when there is exactly
\* one; without it, or when the request failed, data is null
ExistingProfile(uid, failed) ==
    LET rows == {p \in Visible(db, "user_profiles", uid) : SqlEq(p.user_id, uid)}
    IN  IF ~failed /\ Cardinality(rows) = 1
        THEN <<CHOOSE p \in rows : TRUE>>
        ELSE <<>>

\* the select of the profile is answered; its error is not looked at, and
\* without a row handleSubmit goes on to insert one
ProfileSelectAnswered ==
    \E r \in InFlight, failed \in BOOLEAN :
        /\ r.op = "login" /\ r.phase = "select"
        /\ Replace(r, [r EXCEPT !.phase =
                            IF ExistingProfile(r.uid, failed) = <<>>
                            THEN "insert" ELSE "refreshProfile"])
        /\ UNCHANGED <<dbVars, focus, authVars, appVars, resolved, settled,
                       pageVars>>

\* the profile row handleSubmit inserts: the role follows from the e-mail
\* address typed in
LoginProfile(r) ==
    [user_id |-> r.uid, email |-> r.email,
     role |-> IF r.email = "admin@robostaan.com" THEN "admin"
              ELSE IF r.email = "instructor@robostaan.com" THEN "instructor"
              ELSE "user"]

\* the insert of the profile is answered (an error is only logged)
ProfileInsertAnswered ==
    \E r \in InFlight :
        /\ r.op = "login" /\ r.phase = "insert"
        /\ \/ LET out == Inserted(r.uid, "user_profiles", LoginProfile(r))
              IN  db' = out.db /\ nextId' = out.nextId
           \/ UNCHANGED <<db, nextId>>
        /\ Replace(r, [r EXCEPT !.phase = "refreshProfile"])
        /\ UNCHANGED <<response, focus, authVars, appVars, resolved, settled,
                       pageVars>>

\* refreshProfile has returned: navigate('/')
LoginNavigates ==
    \E r \in InFlight :
        /\ r.op = "login" /\ r.phase = "refreshProfile"
        /\ route' = "/"
        /\ submitting' = FALSE
        /\ Drop(r)
        /\ UNCHANGED <<dbVars, focus, authVars, appVars, resolved, settled,
                       showModal, editingBlog, editing, formData, alert,
                       adminSecretKey, error, success>>

\* the Login page is opened by a visitor; each of the two accounts may or
\* may not have its profile
InitLogin ==
    /\ focus = Family({"user_profiles"}, {})
    /\ \E profiles \in SUBSET LoginProfiles :
        db = [t \in Tables |->
                CASE t = "blogs" -> SeedBlogs
                  [] t = "courses" -> SeedCourses
                  [] t = "user_profiles" -> profiles
                  [] OTHER -> {}]
    /\ nextId = FirstId
    /\ response = Respond(Anon, "SELECT", "blogs", "ok", SeedBlogs, "-")
    /\ user = NULL /\ profile = NoProfile /\ isOpen = FALSE
    /\ blogs = <<>> /\ courses = <<>> /\ loading = FALSE
    /\ requests = EmptyBag /\ resolved = {} /\ settled = <<>>
    /\ showModal = FALSE /\ editingBlog = <<>> /\ alert = ""
    /\ formData = LoginForm
    /\ adminSecretKey = "" /\ error = NULLTEXT /\ success = NULLTEXT
    /\ submitting = FALSE /\ route = "" /\ editing = FALSE

NextLogin ==
    \/ LoginEdit \/ LoginSubmit \/ handleDemoLogin
    \/ SignInAnswered \/ ProfileSelectAnswered \/ ProfileInsertAnswered
    \/ LoginNavigates

SpecLogin == InitLogin /\ [][NextLogin]_vars

\* ---- the Profile page -----------------------------------------------------

UpdatingFailed == "Error updating profile. Please try again."

\* the form filled in from the profile: a missing value is shown as ''
ProfileForm(p) ==
    [c \in {"full_name", "bio", "avatar_url"} |->
        IF p[c] = NULLTEXT THEN "" ELSE p[c]]

\* what can be typed into a field of the form
ProfileTexts == {"", "x"}

\* the page shows the profile and its form to a signed-in account only
ProfileShown == user # NULL /\ profile # NoProfile

\* the Edit Profile button
startEditing ==
    /\ ProfileShown /\ NoDialog /\ ~editing
    /\ editing' = TRUE
    /\ UNCHANGED <<dbVars, focus, authVars, appVars, requests, resolved,
                   settled, showModal, editingBlog, formData, alert,
                   adminSecretKey, error, success, submitting, route>>

\* the Cancel button
cancelEditing ==
    /\ ProfileShown /\ NoDialog /\ editing
    /\ editing' = FALSE
    /\ UNCHANGED <<dbVars, focus, authVars, appVars, requests, resolved,
                   settled, showModal, editingBlog, formData, alert,
                   adminSecretKey, error, success, submitting, route>>

\* a field of the form is edited
ProfileEdit ==
    /\ ProfileShown /\ NoDialog /\ editing
    /\ \E c \in DOMAIN formData, text \in ProfileTexts :
        formData' = [formData EXCEPT ![c] = text]
    /\ UNCHANGED <<dbVars, focus, authVars, appVars, requests, resolved,
                   settled, showModal, editingBlog, alert, formVars>>

\* the Sign Out button of the page
ProfileSignOut ==
    /\ ProfileShown /\ NoDialog
    /\ user' = NULL
    /\ profile' = NoProfile
    /\ UNCHANGED <<dbVars, focus, isOpen, appVars, requests, resolved,
                   settled, pageVars>>

\* the UPDATE handleSubmit sends: the form and the time of the client, for
\* the rows with the user_id of the account
SaveRequest(input) ==
    [op |-> "saveProfile", who |-> user, uid |-> user, input |-> input,
     phase |-> "sent", error |-> FALSE]

\* (mutant) the role of the profile is sent along with the form
ProfileSubmit_SendsRole ==
    /\ ProfileShown /\ NoDialog /\ editing /\ ~submitting
    /\ user # NULL
    /\ submitting' = TRUE
    /\ Send(SaveRequest([c \in DOMAIN formData \cup {"updated_at", "role"} |->
                            CASE c = "updated_at" -> ClientTime
                              [] c = "role" -> "admin"
                              [] OTHER -> formData[c]]))
    /\ UNCHANGED <<dbVars, focus, authVars, appVars, resolved, settled,
                   showModal, editingBlog, formData, alert, adminSecretKey,
                   error, success, route, editing>>

\* handleSubmit up to its await: nothing without a user, else the UPDATE
ProfileSubmit ==
    /\ ProfileShown /\ NoDialog /\ editing /\ ~submitting
    /\ user # NULL
    /\ submitting' = TRUE
    /\ Send(SaveRequest(Stamped(formData)))
    /\ UNCHANGED <<dbVars, focus, authVars, appVars, resolved, settled,
                   showModal, editingBlog, formData, alert, adminSecretKey,
                   error, success, route, editing>>

\* UPDATE user_profiles SET ... WHERE user_id = uid: the rows the policies
\* let the requester update get the new values
ProfilesUpdated(who, uid, changes) ==
    LET hit == {p \in db["user_profiles"] :
                    /\ SqlEq(p.user_id, uid)
                    /\ Permitted("user_profiles", "UPDATE", who, p)
                    /\ Permitted("user_profiles", "SELECT", who, p)}
        new == {Merge(p, changes) : p \in hit}
    IN  IF \E p \in new : ~Permitted("user_profiles", "UPDATE", who, p)
        THEN Outcome("denied", db, nextId, <<>>)
        ELSE IF \E p \in hit :
                    ~ConstraintsOK(db, "user_profiles", Merge(p, changes),
                                   db["user_profiles"] \ {p})
        THEN Outcome("violation", db, nextId, <<>>)
        ELSE Outcome("ok", [db EXCEPT !["user_profiles"] = (@ \ hit) \cup new],
                     nextId, <<>>)

\* the store answers the UPDATE of the profile, or the request fails
SaveAnswered ==
    \E r \in InFlight :
        /\ r.op = "saveProfile" /\ r.phase = "sent"
        /\ \/ LET out == ProfilesUpdated(r.who, r.uid, r.input)
              IN  /\ db' = out.db
                  /\ Replace(r, [r EXCEPT !.phase = "answered",
                                          !.error = out.status # "ok"])
           \/ /\ UNCHANGED db
              /\ Replace(r, [r EXCEPT !.phase = "answered", !.error = TRUE])
        /\ UNCHANGED <<nextId, response, focus, authVars, appVars, resolved,
                       settled, pageVars>>

\* handleSubmit after the await: on an error the alert, the form stays
\* open; else the form is closed and the page reloaded, which shows the
\* profile as the store has it now
ProfileSubmitReturns ==
    \E r \in InFlight :
        /\ r.op = "saveProfile" /\ r.phase = "answered"
        /\ NoDialog
        /\ IF r.error
           THEN /\ alert' = UpdatingFailed
                /\ UNCHANGED <<profile, formData, editing>>
           ELSE /\ editing' = FALSE
                /\ LET own == {p \in db["user_profiles"] :
                                    SqlEq(p.user_id, user)}
                   IN  IF own = {}
                       THEN UNCHANGED <<profile, formData>>
                       ELSE \E p \in own : /\ profile' = <<p>>
                                           /\ formData' = ProfileForm(p)
                /\ UNCHANGED alert
        /\ submitting' = FALSE
        /\ Drop(r)
        /\ UNCHANGED <<dbVars, focus, user, isOpen, appVars, resolved,
                       settled, showModal, editingBlog, adminSecretKey,
                       error, success, route>>

\* the Profile page is opened with the session of one of the two accounts
InitProfile ==
    /\ focus = Family({"user_profiles"}, {})
    /\ Store("user")
    /\ user \in Users
    /\ profile = <<CHOOSE p \in SignedUp("user") : p.user_id = user>>
    /\ isOpen = FALSE
    /\ blogs = <<>> /\ courses = <<>> /\ loading = FALSE
    /\ requests = EmptyBag /\ resolved = {} /\ settled = <<>>
    /\ showModal = FALSE /\ editingBlog = <<>> /\ alert = ""
    /\ formData = ProfileForm(profile[1])
    /\ adminSecretKey = "" /\ error = NULLTEXT /\ success = NULLTEXT
    /\ submitting = FALSE /\ route = "" /\ editing = FALSE

NextProfile ==
    \/ startEditing \/ cancelEditing \/ ProfileEdit \/ ProfileSignOut
    \/ ProfileSubmit \/ SaveAnswered \/ ProfileSubmitReturns
    \/ alertDismissed

SpecProfile == InitProfile /\ [][NextProfile]_vars

-----------------------------------------------------------------------------
(***************************************************************************)
(* Properties of the client                                                *)
(***************************************************************************)

\* C1 (as claimed): once addBlog has resolved with the inserted row, the
\* in-memory blogs list contains the row in every later state, until a
\* deleteBlog for its id resolves.  TLC finds the row dropped by a fetchData
\* whose blogs query was answered before the insert and that returns after
\* addBlog did.
C1_AddedBlogStaysListed ==
    \A e \in resolved :
        ( /\ e.op = "add"
          /\ e.table = "blogs"
          /\ Resolved("delete", "blogs", e.id) \notin resolved )
            => e.id \in ListIds(blogs)

\* C2 (as claimed): once deleteCourse(id) has resolved, the in-memory
\* courses list contains no course with that id in any later state.  TLC
\* finds the course put back by a fetchData whose courses query was answered
\* before the delete and that returns after deleteCourse did.
C2_DeletedCourseStaysAway ==
    \A e \in resolved :
        (e.op = "delete" /\ e.table = "courses")
            => e.id \notin ListIds(courses)

\* signed out, or signed in with no profile or the role user or instructor
NonAdmin ==
    \/ user = NULL
    \/ profile = NoProfile
    \/ profile[1].role \in {"user", "instructor"}

\* C3: whenever isAdmin is false -- as it is for a visitor and for an
\* account whose role is user or instructor -- the Add Blog button of the
\* Blogs page, the edit and delete buttons of every CourseCard and the Admin
\* Panel link of the user menu are not rendered.
C3_AdminControlsHidden ==
    /\ NonAdmin => ~isAdmin
    /\ ~isAdmin =>
        /\ ~AddBlogButton
        /\ \A i \in DOMAIN courses : ~CourseCardButtons(courses[i])
        /\ ~AdminPanelLink

\* C3 witness: an instructor is signed in, the lists are loaded and shown,
\* and the user menu is open
C3_Witness ==
    /\ user # NULL
    /\ profile # NoProfile
    /\ profile[1].role = "instructor"
    /\ isOpen
    /\ ~loading
    /\ courses # <<>>
    /\ ~AddBlogButton
    /\ ~AdminPanelLink

-----------------------------------------------------------------------------
(***************************************************************************)
(* Properties of the store                                                 *)
(***************************************************************************)

Writes == {"INSERT", "UPDATE", "DELETE"}
Content == {"blogs", "courses"}
Owned == {"user_profiles", "user_preferences", "course_enrollments",
          "blog_likes", "comments"}

\* the requester has a profile with this role
HasRole(who, role) ==
    \E p \in db["user_profiles"] : SqlEq(p.user_id, who) /\ p.role = role

\* C4 (as claimed): a write on blogs or courses is accepted only from an
\* authenticated requester whose profile has the admin role.  The policies
\* are TO authenticated WITH CHECK / USING (true): TLC finds a write of a
\* requester whose role is user or instructor accepted.
C4_WritesNeedAdmin ==
    (/\ response.table \in Content
     /\ response.cmd \in Writes
     /\ response.status = "ok")
        => (response.who # Anon /\ HasRole(response.who, "admin"))

CascadedAway(t, r) ==
    /\ r.id \notin Ids(db'[t])
    /\ \E fk \in ForeignKeys :
        /\ fk.table = t
        /\ r[fk.col] # NULL
        /\ r[fk.col] \notin Ids(db'[fk.ref])

\* C6 (as claimed): whatever a request creates, modifies or deletes in the
\* user-owned tables is a row of the requester.  TLC finds a row of one user
\* deleted by another user's request, through ON DELETE CASCADE.
C6_OnlyOwnRowsChange ==
    [][\A t \in Owned :
        \A r \in (db[t] \ db'[t]) \cup (db'[t] \ db[t]) :
            SqlEq(response'.who, r.user_id)]_vars

\* C6 (amended): every row of the user-owned tables that a request creates
\* or modifies is a row of the requester, before and after the change; a
\* request deletes a row of another user only by ON DELETE CASCADE, when it
\* deletes the blog, course or parent comment the row referenced.
C6_OnlyOwnRowsChangeButCascade ==
    [][\A t \in Owned :
        /\ \A r \in db'[t] \ db[t] : SqlEq(response'.who, r.user_id)
        /\ \A r \in db[t] \ db'[t] :
            SqlEq(response'.who, r.user_id) \/ CascadedAway(t, r)]_vars

\* C6 witness: user 2 tried to update a comment of user 1 and reached no row
C6_Witness ==
    /\ response.who = 2
    /\ response.cmd = "UPDATE"
    /\ response.table = "comments"
    /\ response.status = "none"
    /\ db["comments"] # {}
    /\ \A c \in db["comments"] : c.user_id = 1

\* C7: a SELECT on course_enrollments returns exactly the requester's own
\* rows (none to the anonymous requester), while a SELECT on user_profiles,
\* blog_likes, comments or newsletter_subscriptions returns every row to
\* every requester.
C7_OwnEnrollmentsOnly ==
    response.cmd = "SELECT" =>
        /\ response.table = "course_enrollments" =>
            response.rows = {r \in db["course_enrollments"] :
                                SqlEq(r.user_id, response.who)}
        /\ response.table \in {"user_profiles", "blog_likes", "comments",
                               "newsletter_subscriptions"} =>
            response.rows = db[response.table]

\* C7 witness: both users are enrolled and user 2 reads the table
C7_Witness ==
    /\ response.cmd = "SELECT"
    /\ response.table = "course_enrollments"
    /\ response.who = 2
    /\ \E r \in db["course_enrollments"] : r.user_id = 1
    /\ \E r \in db["course_enrollments"] : r.user_id = 2

\* C8: every comment row has exactly one of blog_id and course_id set, and
\* an INSERT or UPDATE whose row would have both or neither is refused and
\* leaves the tables as they were.
C8_CommentHasOneTarget ==
    /\ [](\A c \in db["comments"] :
            (c.blog_id # NULL) # (c.course_id # NULL))
    /\ [][( /\ response'.table = "comments"
            /\ response'.cmd \in {"INSERT", "UPDATE"}
            /\ response'.status # "none"
            /\ response'.sent[1] = response'.sent[2] )
                => response'.status # "ok" /\ db' = db]_vars

\* C8 witness: a comment is stored and an UPDATE that would give it a blog
\* and a course was refused by the CHECK
C8_Witness ==
    /\ response.table = "comments"
    /\ response.cmd = "UPDATE"
    /\ response.status = "violation"
    /\ response.sent = <<TRUE, TRUE>>
    /\ db["comments"] # {}

\* min(100, max(0, p))
Clamp(p) ==
    IF p < ProgressMin THEN ProgressMin
    ELSE IF p > ProgressMax THEN ProgressMax ELSE p

\* an INSERT or UPDATE on course_enrollments that passed the policies and
\* carried an integer progress
EnrollmentWrite(resp) ==
    /\ resp.table = "course_enrollments"
    /\ resp.cmd \in {"INSERT", "UPDATE"}
    /\ resp.status \in {"ok", "violation"}
    /\ resp.sent # NULLINT

\* C9 (as claimed): a write of an enrollment with integer progress p is
\* accepted and stores min(100, max(0, p)).  TLC finds a write with p
\* outside 0..100 refused by the CHECK.
C9_ProgressClamped ==
    EnrollmentWrite(response) =>
        /\ response.status = "ok"
        /\ \E r \in db["course_enrollments"] :
            r.progress = <<Clamp(response.sent[1])>>

\* C9 (amended): a write of an enrollment with integer progress p outside
\* 0..100 is refused and leaves the tables as they were (nothing is
\* clamped); a write that is accepted has 0 <= p <= 100 and stores p itself.
C9_ProgressCheckedNotClamped ==
    /\ [](EnrollmentWrite(response) =>
            /\ (response.sent[1] < ProgressMin
                    \/ response.sent[1] > ProgressMax)
                => response.status = "violation"
            /\ response.status = "ok"
                => \E r \in db["course_enrollments"] :
                        r.progress = response.sent)
    /\ [][(EnrollmentWrite(response') /\ response'.status = "violation")
            => db' = db]_vars

\* C9 witness: an UPDATE to progress 101 was refused
C9_Witness ==
    /\ EnrollmentWrite(response)
    /\ response.cmd = "UPDATE"
    /\ response.sent = <<101>>
    /\ response.status = "violation"

\* C10 (as claimed): after any inserts and updates, every enrollment row
\* has a progress, and 0 <= progress <= 100 (a row inserted with no
\* progress takes the DEFAULT 0, see EnrollmentRow).  The column is nullable
\* and the CHECK passes on NULL: TLC finds a row stored with no progress.
C10_ProgressInRange ==
    /\ \A r \in db["course_enrollments"] :
        /\ r.progress # NULLINT
        /\ r.progress[1] >= ProgressMin
        /\ r.progress[1] <= ProgressMax

\* C11 (as claimed): in every reachable state every profile row has a role
\* among user, admin, instructor and every course row a category among
\* Beginner, Intermediate, Advanced.  The role column is nullable and its
\* CHECK passes on NULL: TLC finds a profile stored with no role.
C11_RoleAndCategoryInDomain ==
    /\ \A p \in db["user_profiles"] : p.role \in Roles
    /\ \A c \in db["courses"] : c.category \in Categories

\* the column that, with user_id, forms the UNIQUE pair of a table
PairColumn(t) == IF t = "course_enrollments" THEN "course_id" ELSE "blog_id"
PairTables == {"course_enrollments", "blog_likes"}

\* C15 (as claimed): no two course_enrollments rows have the same
\* (user_id, course_id) and no two blog_likes rows the same
\* (user_id, blog_id).  A UNIQUE key with a NULL in it never collides: TLC
\* finds two enrollments of one user that both have no course.
C15_PairsUnique ==
    \A t \in PairTables :
        \A r1, r2 \in db[t] :
            (r1.user_id = r2.user_id
                /\ r1[PairColumn(t)] = r2[PairColumn(t)]) => r1 = r2

\* the two rows name the same user and the same course or blog
SamePair(t, r1, r2) ==
    /\ SqlEq(r1.user_id, r2.user_id)
    /\ SqlEq(r1[PairColumn(t)], r2[PairColumn(t)])

\* C15 (amended): no two course_enrollments rows name the same user and the
\* same course, and no two blog_likes rows the same user and the same blog
\* (rows without a course or blog are not limited); an INSERT into either
\* table is accepted only when no stored row has its pair, and an INSERT
\* that is not accepted leaves the tables as they were.
C15_PairsUniqueWhereSet ==
    /\ [](\A t \in PairTables :
            \A r1, r2 \in db[t] : SamePair(t, r1, r2) => r1 = r2)
    /\ [][\A t \in PairTables :
            (response'.table = t /\ response'.cmd = "INSERT") =>
                IF response'.status = "ok"
                THEN \A r \in db'[t] \ db[t] :
                        ~\E o \in db[t] : SamePair(t, o, r)
                ELSE db' = db]_vars

\* C15 witness: a like is stored and a second INSERT of its pair, which the
\* policy admitted, was refused
C15_Witness ==
    /\ response.table = "blog_likes"
    /\ response.cmd = "INSERT"
    /\ response.status = "violation"
    /\ \E r \in db["blog_likes"] :
        r.user_id = response.who /\ r.blog_id # NULL

\* C16: every like and every comment with a blog_id references a stored
\* blog, every enrollment and every comment with a course_id a stored
\* course, every comment with a parent_id a stored comment; and a step that
\* removes a blog, a course or a comment removes with it every row that
\* referenced it.
C16_NoDanglingReference ==
    /\ [](\A fk \in ForeignKeys :
            \A r \in db[fk.table] :
                r[fk.col] = NULL \/ r[fk.col] \in Ids(db[fk.ref]))
    /\ [][\A fk \in ForeignKeys :
            \A r \in db[fk.table] :
                (r[fk.col] # NULL /\ r[fk.col] \notin Ids(db'[fk.ref]))
                    => r.id \notin Ids(db'[fk.table])]_vars

\* C16 witness: enrollments in a course were stored (they cannot be deleted
\* directly), the course was deleted, and they are gone
C16_Witness ==
    /\ focus.on = {"course_enrollments"}
    /\ response.cmd = "DELETE"
    /\ response.table = "courses"
    /\ response.status = "ok"
    /\ nextId > FirstId
    /\ db["course_enrollments"] = {}

\* the step ends the call of addBlog .. deleteCourse that request r made
Returns(r) ==
    /\ r.op \in {"add", "update", "delete"}
    /\ r.phase = "answered"
    /\ requests' = requests (-) SetToBag({r})

\* C17: when the backend answered addBlog, updateBlog, deleteBlog,
\* addCourse, updateCourse or deleteCourse with an error, the step in which
\* the call returns leaves the in-memory blogs and courses lists as they
\* were and the call is rejected with the error.
C17_FailedMutationChangesNothing ==
    [][\A r \in InFlight :
        (Returns(r) /\ r.error) =>
            /\ blogs' = blogs
            /\ courses' = courses
            /\ resolved' = resolved
            /\ settled' = <<[op |-> r.op, table |-> r.table,
                             error |-> TRUE]>>]_vars

\* C17 witness: with rows listed, a call was rejected
C17_Witness ==
    /\ settled # <<>>
    /\ settled[1].error
    /\ settled[1].op = "delete"
    /\ List(settled[1].table) # <<>>

\* C20 (as claimed): under every interleaving of the answers to fetchData,
\* addBlog, updateBlog and deleteBlog, the in-memory blogs list never has
\* two entries with the same id.  TLC finds a blog listed twice: a fetchData
\* that read the blog after its insert returns before addBlog does, and
\* addBlog then puts the row in front of the list again.
C20_NoDuplicateBlogs ==
    \A i, j \in DOMAIN blogs : blogs[i].id = blogs[j].id => i = j

\* C13 (as claimed): the created_at and updated_at of every blogs and
\* courses row are chosen by the store, never by the client.  updateBlog and
\* updateCourse send updated_at: new Date().toISOString() with every update
\* and no trigger replaces it: TLC finds a row whose updated_at is the
\* client's.
C13_TimestampsFromServer ==
    \A t \in {"blogs", "courses"} :
        \A r \in db[t] :
            r.created_at = ServerTime /\ r.updated_at = ServerTime

\* the step sends request r
Sends(r) == requests' = requests (+) SetToBag({r})

\* C18: the form of the Blogs page calls updateBlog for the blog being edited
\* and addBlog when none is; when the call succeeds the modal is closed, the
\* editing target cleared and the form reset to empty; when it fails the
\* alert is shown and the modal, the editing target and the form data are
\* left as they were.
C18_SubmitSavesOrAlerts ==
    [][/\ \A r \in BagToSet(requests') :
            (Sends(r) /\ r.op \in {"add", "update"}) =>
                IF editingBlog # <<>>
                THEN r.op = "update" /\ r.id = editingBlog[1].id
                     /\ r.input.title = formData.title
                ELSE r.op = "add" /\ r.input = formData
       /\ \A r \in InFlight :
            (Returns(r) /\ r.op \in {"add", "update"}) =>
                IF r.error
                THEN /\ alert' = SavingFailed
                     /\ UNCHANGED <<showModal, editingBlog, formData>>
                ELSE /\ showModal' = FALSE
                     /\ editingBlog' = <<>>
                     /\ formData' = EmptyForm]_vars

\* C18 witness: an update from the modal failed; the alert is up and the
\* modal still open on the blog being edited with the title that was typed
C18_Witness ==
    /\ settled = <<[op |-> "update", table |-> "blogs", error |-> TRUE]>>
    /\ alert = SavingFailed
    /\ showModal
    /\ editingBlog # <<>>
    /\ formData.title = "t2"

\* C12 (as claimed): whenever a backend call of the client returns an error,
\* the page afterwards shows a user-facing error message.  On the Blogs page
\* the failed saves and deletes raise an alert, but fetchData only logs the
\* error of its queries: TLC finds a failed fetchData that returns with no
\* message shown.
C12_BackendErrorShown ==
    [][\A r \in InFlight :
        (/\ r.phase = "answered" /\ r.error
         /\ requests' = requests (-) SetToBag({r})) => alert' # ""]_vars

\* the step is a submission of the Signup form: the form is left as it is
\* and either the sign-up request goes out or a check refuses the input
SignupSubmits ==
    /\ route = "" /\ ~submitting /\ Filled
    /\ formData' = formData /\ adminSecretKey' = adminSecretKey
    /\ \/ \E r \in BagToSet(requests') : Sends(r) /\ r.op = "signUp"
       \/ requests' = requests /\ error' # NULLTEXT /\ error' # error

\* a step sends the sign-up request with role admin only with the admin
\* secret key in the key field, and every insert of a profile with role
\* admin that is under way belongs to a submission made with that key
AdminNeedsKey ==
    \A r \in BagToSet(requests') :
        /\ (Sends(r) /\ r.op = "signUp" /\ r.role = "admin") =>
                adminSecretKey = ADMIN_SECRET
        /\ (r.op = "signUp" /\ r.phase = "profile"
                /\ SignupProfile(r).role = "admin") =>
                r.adminSecretKey = ADMIN_SECRET

\* C14 (as claimed): a sign-up request and a profile insert with role admin
\* are issued only if the key entered equals ADMIN_SECRET, and a submission
\* with role admin and any other key ends with the error 'Invalid admin
\* secret key' and no backend request.  The error is another one when the
\* passwords entered do not match or are too short: those checks come first.
C14_AdminKeyOrInvalidKeyError ==
    [][/\ AdminNeedsKey
       /\ (SignupSubmits /\ formData.role = "admin"
              /\ adminSecretKey # ADMIN_SECRET) =>
            (requests' = requests /\ error' = "Invalid admin secret key")]_vars

\* C14 (amended): a sign-up request and a profile insert with role admin are
\* issued only if the key entered equals ADMIN_SECRET; a submission with
\* role admin and any other key issues no backend request and ends with an
\* error, which is 'Invalid admin secret key' when the passwords entered
\* match and have at least 6 characters.
C14_AdminKeyOrNoRequest ==
    [][/\ AdminNeedsKey
       /\ (SignupSubmits /\ formData.role = "admin"
              /\ adminSecretKey # ADMIN_SECRET) =>
            /\ requests' = requests
            /\ error' # NULLTEXT
            /\ (/\ formData.password = formData.confirmPassword
                /\ Len(formData.password) >= MinPasswordLength) =>
                    error' = "Invalid admin secret key"]_vars

\* C14 witness: a submission for role admin with a wrong key and valid
\* passwords was refused, and nothing was sent
C14_Witness ==
    /\ formData.role = "admin"
    /\ adminSecretKey = "guess"
    /\ formData.password = formData.confirmPassword
    /\ Len(formData.password) >= MinPasswordLength
    /\ error = "Invalid admin secret key"
    /\ requests = EmptyBag
    /\ ~submitting

\* the step takes the call r of the Login page on to r2
Continues(r, r2) ==
    /\ r.op = "login"
    /\ r2.op = "login" /\ r2 # r
    /\ requests' = (requests (-) SetToBag({r})) (+) SetToBag({r2})

\* the account has a profile row
HasProfile(uid) == \E p \in db["user_profiles"] : SqlEq(p.user_id, uid)

\* C19 (as claimed): after a sign-in through the login form the page issues
\* the insert of a profile exactly when the account has no user_profiles
\* row, with role admin for admin@robostaan.com, instructor for
\* instructor@robostaan.com and user otherwise; no existing row is changed;
\* the page navigates to '/' only when refreshProfile has completed, and a
\* sign-in error is followed by no profile request and no navigation.  TLC
\* finds an insert issued for an account that has its row: the select that
\* looks for the row failed, and its error is not looked at.
C19_ProfileCreatedOnlyWhenMissing ==
    [][/\ \A r \in InFlight : \A r2 \in BagToSet(requests') :
            (Continues(r, r2) /\ r.phase = "select") =>
                (r2.phase = "insert" <=> ~HasProfile(r.uid))
       /\ \A p \in db'["user_profiles"] \ db["user_profiles"] :
            p.role = CASE p.email = "admin@robostaan.com" -> "admin"
                       [] p.email = "instructor@robostaan.com" -> "instructor"
                       [] OTHER -> "user"
       /\ db["user_profiles"] \subseteq db'["user_profiles"]
       /\ route' # route =>
            \E r \in InFlight :
                r.op = "login" /\ r.phase = "refreshProfile" /\ route' = "/"
       /\ \A r \in InFlight :
            (r.op = "login" /\ r.phase = "signIn"
                /\ requests' = requests (-) SetToBag({r})) =>
                    route' = route /\ error' # NULLTEXT]_vars

\* the rows a list holds, as a set
Listed(list) == {list[i] : i \in DOMAIN list}

\* no request in flight has been answered with an error
NoErrors == \A r \in InFlight : ~r.error

\* the session of the admin is restored
InitAdmin == Init /\ user = 1

\* the steps of the client and the store in which no request fails
NextSucceeding ==
    \/ refreshData /\ NoErrors'
    \/ BlogsQueryAnswered /\ NoErrors'
    \/ CoursesQueryAnswered /\ NoErrors'
    \/ fetchDataReturns /\ NoErrors'
    \/ addBlog /\ NoErrors'
    \/ updateBlog /\ NoErrors'
    \/ deleteBlog /\ NoErrors'
    \/ addCourse /\ NoErrors'
    \/ updateCourse /\ NoErrors'
    \/ deleteCourse /\ NoErrors'
    \/ InsertAnswered /\ NoErrors'
    \/ UpdateAnswered /\ NoErrors'
    \/ DeleteAnswered /\ NoErrors'
    \/ addBlogReturns /\ NoErrors'
    \/ updateBlogReturns /\ NoErrors'
    \/ deleteBlogReturns /\ NoErrors'
    \/ addCourseReturns /\ NoErrors'
    \/ updateCourseReturns /\ NoErrors'
    \/ deleteCourseReturns /\ NoErrors'

\* one client, the admin, all of whose requests succeed
SpecSucceeding == InitAdmin /\ [][NextSucceeding]_vars

\* C21 (as claimed): with one client and every request succeeding, whenever
\* no fetchData, add, update or delete is in flight the rows held in the
\* in-memory blogs and courses lists are the rows of the backend tables.
\* TLC reaches a state with nothing in flight and a list that differs from
\* its table: an add answered before a fetch and an update returns after
\* them and puts its older row in front of the list.
C21_ListsConverge ==
    requests = EmptyBag =>
        /\ Listed(blogs) = db["blogs"]
        /\ Listed(courses) = db["courses"]

\* a fetchData is in flight
Fetching == \E r \in InFlight : r.op = "fetchData"

\* C22 (as claimed): loading is true in every state in which a fetchData is
\* in flight and false in every state in which none is.  TLC finds loading
\* false with a fetchData in flight: of two fetches under way the first to
\* return clears the flag.
C22_LoadingTracksFetches == loading <=> Fetching

\* C23: the step in which a fetchData returns leaves both in-memory lists as
\* they were when one of its queries was answered with an error, and puts
\* the rows of the blogs query and of the courses query in their place when
\* both succeeded.
C23_FetchAllOrNothing ==
    [][\A r \in InFlight :
        (/\ r.op = "fetchData" /\ r.phase = "answered"
         /\ requests' = requests (-) SetToBag({r})) =>
            IF r.error
            THEN blogs' = blogs /\ courses' = courses
            ELSE blogs' = r.blogsData /\ courses' = r.coursesData]_vars

\* C23 witness: a fetchData whose blogs query had been answered failed and
\* has returned: nothing is in flight, loading is cleared and the lists are
\* still empty beside the rows of the tables
C23_Witness ==
    /\ requests = EmptyBag
    /\ ~loading
    /\ blogs = <<>> /\ courses = <<>>
    /\ Visible(db, "blogs", user) # {}
    /\ resolved = {}

\* C24: the step in which a successful updateBlog or updateCourse of id
\* returns leaves the in-memory list with the same length and the same ids
\* in the same positions; the entries with that id are the row the backend
\* returned and every other entry is as it was, so that a list with no entry
\* of that id is unchanged; the other list is not touched.
C24_UpdateReplacesInPlace ==
    [][\A r \in InFlight :
        (Returns(r) /\ r.op = "update" /\ ~r.error) =>
            LET old == List(r.table)
                new == IF r.table = "blogs" THEN blogs' ELSE courses'
            IN  /\ Len(new) = Len(old)
                /\ \A i \in DOMAIN old :
                    /\ new[i].id = old[i].id
                    /\ new[i] = IF old[i].id = r.id THEN r.data[1] ELSE old[i]
                /\ (r.id \notin ListIds(old)) => new = old
                /\ r.table = "blogs" => courses' = courses
                /\ r.table = "courses" => blogs' = blogs]_vars

\* C24 witness: an update has returned into a list of two entries, of which
\* one now carries the new title and the other the old one
C24_Witness ==
    /\ settled = <<[op |-> "update", table |-> "blogs", error |-> FALSE]>>
    /\ Len(blogs) = 2
    /\ blogs[1].title = "t1"
    /\ blogs[2].title = "t2"

\* the operations are issued one at a time
OneAtATime == BagCardinality(requests) <= 1

\* C25: when every operation completes before the next one starts, the
\* in-memory blogs list is always in the order in which a fetchData returns
\* its rows, newest first.
C25_BlogsNewestFirst ==
    [] OneAtATime => [] (blogs = NewestFirst(Listed(blogs)))

\* C25 witness: a blog was added to the fetched list, nothing else is under
\* way, and the new blog stands before the older one
C25_Witness ==
    /\ requests = EmptyBag
    /\ settled = <<[op |-> "add", table |-> "blogs", error |-> FALSE]>>
    /\ Len(blogs) = 2
    /\ blogs[1].id > blogs[2].id

\* C26 (as claimed): whenever the modal of the Blogs page is opened with no
\* blog being edited, the form is empty.  TLC finds the modal opened by Add
\* Blog with the data of a blog in the form: the blog was opened with Edit
\* and the modal left with Cancel, which clears the editing target and not
\* the form.
C26_AddModeStartsEmpty ==
    [][(~showModal /\ showModal' /\ editingBlog' = <<>>) =>
            formData' = EmptyForm]_vars

\* a submission of the Signup page is under way
SigningUp == \E r \in InFlight : r.op = "signUp"

\* C27: a submission of the Signup form whose passwords differ, whose
\* password has fewer than 6 characters or whose role is admin with a wrong
\* key issues no request, shows the error of the first of these checks that
\* fails, in this order, and leaves the page's loading flag false; and the
\* flag is false whenever a submission ends, with the error of the backend
\* or with success.
C27_ValidationBlocksRequest ==
    [][/\ SignupSubmits =>
            LET mismatch == formData.password # formData.confirmPassword
                short == Len(formData.password) < MinPasswordLength
                badKey == formData.role = "admin"
                              /\ adminSecretKey # ADMIN_SECRET
            IN  (mismatch \/ short \/ badKey) =>
                    /\ requests' = requests
                    /\ ~submitting'
                    /\ error' = IF mismatch THEN "Passwords do not match"
                                ELSE IF short
                                THEN "Password must be at least 6 characters long"
                                ELSE "Invalid admin secret key"
       /\ (SigningUp /\ ~SigningUp') => ~submitting']_vars

\* C27 witness: a submission for role admin with a wrong key and a password
\* of 3 characters, typed twice, was refused for the password
C27_Witness ==
    /\ formData.role = "admin"
    /\ adminSecretKey = "guess"
    /\ formData.password = formData.confirmPassword
    /\ Len(formData.password) = 3
    /\ error = "Password must be at least 6 characters long"
    /\ requests = EmptyBag
    /\ ~submitting

\* what a save of the profile may set
ProfileColumns == {"full_name", "bio", "avatar_url", "updated_at"}

Saving == {r \in InFlight : r.op = "saveProfile"}

====
